---- MODULE Spec2Model ----
(***************************************************************************)
(* Joy2KeyMouse (src/joy2keymouse.c): a daemon that finds a gamepad under  *)
(* /dev/input, translates its events into key, pointer and scroll events   *)
(* on a uinput device, and waits on inotify for a new device file when no  *)
(* gamepad is present.                                                     *)
(*                                                                         *)
(* Time is counted in ticks of 2^20 ns (about 1.05 ms): TLC's integers are *)
(* 32 bits wide and the nanosecond products of the source are 64 bits      *)
(* wide. An interval of k ticks is the interval k * 2^20 ns of the source, *)
(* and x * interval / 2^36 of the source is x * k / 2^16 exactly.          *)
(***************************************************************************)
EXTENDS Integers, Sequences, FiniteSets, TLC

(* ---------------------------------------------------------------- bounds *)

\* Device files exist only at event0 .. event(MaxDev-1); every higher ID fails to open.
MaxDev == 2
\* At most this many unread inotify records are queued.
MaxNotif == 2

(* ------------------------------------------------------ program constants *)

ScanLimit == 32
z_down_threshold == 512
z_up_threshold == 256
lsub == 8192
ldiv1 == 512
lmul == 1
rsub == 8192
rdiv1 == 512
rmul == 2
\* ldiv2 = rdiv2 = 2^36 ns, which is 2^16 ticks of 2^20 ns
ldiv2 == 2^16
rdiv2 == 2^16
\* poll's timeout while a delta is pending: 20 ms, rounded up to whole ticks
PollTimeout == 20

NoDev == -1

(* ------------------------------------------------------- device namespace *)

\* What a device file is: a gamepad with two sticks and BTN_A, a one-stick
\* joystick, a device whose libevdev_new_from_fd fails, or no file at all.
DeviceKinds == {"gamepad", "joystick", "broken"}
Absent == "absent"

Caps(kind) ==
  CASE kind = "gamepad"  -> {"ABS_X", "ABS_Y", "ABS_RX", "ABS_RY", "BTN_A"}
    [] kind = "joystick" -> {"ABS_X", "ABS_Y", "BTN_A"}
    [] OTHER             -> {}

Namespaces == [0 .. MaxDev - 1 -> DeviceKinds \cup {Absent}]

\* open(path, O_RDONLY | O_NONBLOCK) >= 0
CanOpen(n, i) == i \in DOMAIN n /\ n[i] # Absent

\* libevdev_new_from_fd(fd, &dev) >= 0
CanQuery(n, i) == n[i] # "broken"

\* the capability predicate of find_gamepad
IsGamepad(n, i) ==
  {"ABS_X", "ABS_Y", "ABS_RX", "ABS_RY", "BTN_A"} \subseteq Caps(n[i])

\* a scan that leaves the close_fd label out of the path of a failed query
ClosesRejected_OnlyQueried(n, i) == CanQuery(n, i)

\* lines 48-50: whether the descriptor of a rejected candidate is closed, on
\* the path through libevdev_free and on the path of goto close_fd
ClosesRejected(n, i) == TRUE

RECURSIVE ScanFrom(_, _, _, _)
ScanFrom(n, i, opened, closed) ==
  IF i >= ScanLimit
    THEN [dev |-> NoDev, opened |-> opened, closed |-> closed]
  ELSE IF ~CanOpen(n, i)
    THEN [dev |-> NoDev, opened |-> opened, closed |-> closed]
  ELSE IF CanQuery(n, i) /\ IsGamepad(n, i)
    THEN [dev |-> i, opened |-> opened \cup {i}, closed |-> closed]
  ELSE ScanFrom(n, i + 1, opened \cup {i},
                IF ClosesRejected(n, i) THEN closed \cup {i} ELSE closed)

find_gamepad(n) == ScanFrom(n, 0, {}, {})

(* ------------------------------------------------------------ output sink *)

Key(code, value) == <<"EV_KEY", code, value>>
Rel(code, value) == <<"EV_REL", code, value>>
Syn == <<"EV_SYN", "SYN_REPORT", 0>>

\* The keys whose state at the sink is followed: the modifiers of the
\* triggers and the keys of the directional pad.
TrackedKeys ==
  {"KEY_LEFTCTRL", "KEY_LEFTSHIFT", "KEY_LEFT", "KEY_RIGHT", "KEY_UP", "KEY_DOWN"}

\* The tracked keys held down at the sink after the writes w, from the set d.
RECURSIVE Apply(_, _)
Apply(d, w) ==
  IF w = <<>> THEN d
  ELSE LET h == Head(w)
       IN  Apply(IF h[1] # "EV_KEY" \/ h[2] \notin TrackedKeys THEN d
                 ELSE IF h[3] # 0 THEN d \cup {h[2]} ELSE d \ {h[2]},
                 Tail(w))

(* ----------------------------------------------------------- input events *)

Event(type, code, value) == [type |-> type, code |-> code, value |-> value]
NoEvent == Event("NONE", "NONE", 0)

StickCodes == {"ABS_X", "ABS_Y", "ABS_RX", "ABS_RY"}
HatCodes == {"ABS_HAT0X", "ABS_HAT0Y"}
TriggerCodes == {"ABS_Z", "ABS_RZ"}
ButtonCodes ==
  {"BTN_SOUTH", "BTN_EAST", "BTN_SELECT", "BTN_START", "BTN_TR", "BTN_TL",
   "BTN_DPAD_UP", "BTN_DPAD_DOWN", "BTN_DPAD_LEFT", "BTN_DPAD_RIGHT",
   "BTN_WEST", "BTN_NORTH", "BTN_THUMBL", "BTN_THUMBR"}

\* Raw stick values: the rest position, both sides of the dead-zone
\* threshold, a half and a full deflection, and the ends of the device range.
RawValues == {-32768, -20000, -8192, -8191, 0, 8191, 8192, 20000, 32767}
\* Trigger values on both sides of each threshold.
TriggerValues == {0, 255, 256, 300, 512, 513, 1023}
HatValues == {-1, 0, 1}
ButtonValues == {0, 1}

StickEvents(V) == {Event("EV_ABS", c, v) : c \in StickCodes, v \in V}
HatEvents == {Event("EV_ABS", c, v) : c \in HatCodes, v \in HatValues}
TriggerEvents(V) == {Event("EV_ABS", c, v) : c \in TriggerCodes, v \in V}
ButtonEvents(B) == {Event("EV_KEY", c, v) : c \in B, v \in ButtonValues}
\* events the translation ignores: the device's own report marker, an
\* unmapped axis and an unmapped button
OtherEvents ==
  {Event("EV_SYN", "SYN_REPORT", 0), Event("EV_ABS", "ABS_MISC", 1),
   Event("EV_KEY", "BTN_MODE", 1)}

(* --------------------------------------------------------- EdgeKeyMapper *)

HatKey(v, negKey, posKey) == IF v < 0 THEN negKey ELSE posKey

\* a key-up that leaves its batch open for the key-down
HatRelease_NoMarker(prev, v, negKey, posKey) ==
  IF prev # 0 /\ prev # v
    THEN <<Key(HatKey(prev, negKey, posKey), 0)>>
    ELSE <<>>

\* a mapper that releases the previous key only on the way back to the centre
HatRelease_OnlyToCentre(prev, v, negKey, posKey) ==
  IF prev # 0 /\ v = 0
    THEN <<Key(HatKey(prev, negKey, posKey), 0), Syn>>
    ELSE <<>>

\* lines 193-197: the key-up written for the previous direction
HatRelease(prev, v, negKey, posKey) ==
  IF prev # 0 /\ prev # v
    THEN <<Key(HatKey(prev, negKey, posKey), 0), Syn>>
    ELSE <<>>

\* lines 199-203: the key-down written for the new direction
HatPress(v, negKey, posKey) ==
  IF v # 0 THEN <<Key(HatKey(v, negKey, posKey), 1), Syn>> ELSE <<>>

HatWrites(prev, v, negKey, posKey) ==
  HatRelease(prev, v, negKey, posKey) \o HatPress(v, negKey, posKey)

(* -------------------------------------------------------- HysteresisLatch *)

\* line 219
Pressing(z, v) == v > z_down_threshold /\ ~z

\* a latch with one threshold for both directions
Releasing_SameThreshold(z, v) == v <= z_down_threshold /\ z

\* line 224
Releasing(z, v) == v < z_up_threshold /\ z

\* the latch after the first if, and after the second
LatchAfterPress(z, v) == IF Pressing(z, v) THEN TRUE ELSE z
LatchNext(z, v) ==
  IF Releasing(LatchAfterPress(z, v), v) THEN FALSE ELSE LatchAfterPress(z, v)

LatchWrites(z, v, key) ==
  (IF Pressing(z, v) THEN <<Key(key, 1), Syn>> ELSE <<>>)
  \o (IF Releasing(LatchAfterPress(z, v), v) THEN <<Key(key, 0), Syn>> ELSE <<>>)

(* ----------------------------------------------------------- ButtonRouter *)

ButtonKeys(code) ==
  CASE code = "BTN_SOUTH"      -> <<"BTN_LEFT">>
    [] code = "BTN_EAST"       -> <<"BTN_RIGHT">>
    [] code = "BTN_SELECT"     -> <<"KEY_LEFTMETA">>
    [] code = "BTN_START"      -> <<"KEY_LEFTMETA", "KEY_A">>
    [] code = "BTN_TR"         -> <<"KEY_TAB">>
    [] code = "BTN_TL"         -> <<"KEY_LEFTSHIFT", "KEY_TAB">>
    [] code = "BTN_DPAD_UP"    -> <<"KEY_UP">>
    [] code = "BTN_DPAD_DOWN"  -> <<"KEY_DOWN">>
    [] code = "BTN_DPAD_LEFT"  -> <<"KEY_LEFT">>
    [] code = "BTN_DPAD_RIGHT" -> <<"KEY_RIGHT">>
    [] code = "BTN_WEST"       -> <<"BTN_EXTRA">>
    [] code = "BTN_NORTH"      -> <<"BTN_SIDE">>
    [] code = "BTN_THUMBL"     -> <<"KEY_LEFTALT">>
    [] code = "BTN_THUMBR"     -> <<"KEY_ENTER">>
    [] OTHER                   -> <<>>

\* a chord whose second key is always written as pressed
ButtonValue_SecondPressed(e, k) == IF k = 2 THEN 1 ELSE e.value

\* the value each key of the button is written with: ev.value
ButtonValue(e, k) == e.value

ButtonWrites(e) ==
  [k \in 1 .. Len(ButtonKeys(e.code)) |-> Key(ButtonKeys(e.code)[k], ButtonValue(e, k))]
  \o <<Syn>>

(* --------------------------------------------------------- AxisAccelerator *)

Abs(x) == IF x < 0 THEN -x ELSE x

\* a division that rounds toward minus infinity
TruncDiv_Floor(a, b) == a \div b

\* C's integer division, which truncates toward zero (b > 0)
TruncDiv(a, b) == IF a >= 0 THEN a \div b ELSE -((-a) \div b)

\* pow(1.01, e) for e = -16 .. 48 in fixed point: the least integer not below
\* 1.01^e * 2^30. With it ScaleByPow agrees with (int64)(pow(1.01, e) * m) of
\* the compiled source for every m in 0 .. 32768.
PowTable ==
  <<
    915709858, 924866957, 934115626, 943456783, 952891350,
    962420264, 972044466, 981764911, 991582560, 1001498386,
    1011513370, 1021628503, 1031844788, 1042163236, 1052584869,
    1063110717, 1073741824, 1084479243, 1095324035, 1106277276,
    1117340048, 1128513449, 1139798583, 1151196569, 1162708535,
    1174335620, 1186078976, 1197939766, 1209919164, 1222018355,
    1234238539, 1246580924, 1259046733, 1271637201, 1284353573,
    1297197109, 1310169080, 1323270770, 1336503478, 1349868513,
    1363367198, 1377000870, 1390770879, 1404678587, 1418725373,
    1432912627, 1447241753, 1461714171, 1476331313, 1491094626,
    1506005572, 1521065628, 1536276284, 1551639047, 1567155437,
    1582826992, 1598655261, 1614641814, 1630788232, 1647096115,
    1663567076, 1680202746, 1697004774, 1713974822, 1731114570
  >>

PowFix(e) == PowTable[e + 17]

\* (int64)(pow(base, e) * m) for m >= 0, in 32-bit pieces:
\* floor(m * PowFix(e) / 2^30)
ScaleByPow(m, e) ==
  LET ph == PowFix(e) \div 2^15
      pl == PowFix(e) % 2^15
  IN  (m * ph + (m * pl) \div 2^15) \div 2^15

\* a curve whose exponent is not lowered by sub
Curve_NoSub(v, sub, div1) ==
  LET c == ScaleByPow(Abs(v), TruncDiv(Abs(v), div1))
  IN  IF v < 0 THEN -c ELSE c

\* (int64)(pow(base, (double)((abs(v) - sub) / div1)) * v)
Curve(v, sub, div1) ==
  LET c == ScaleByPow(Abs(v), TruncDiv(Abs(v) - sub, div1))
  IN  IF v < 0 THEN -c ELSE c

\* (int)(Curve * interval / div2 * mul), the interval iv in ticks
Accel(v, iv, sub, div1, div2, mul) ==
  TruncDiv(Curve(v, sub, div1) * iv, div2) * mul

PointerWrites(dx, dy) ==
  IF dx # 0 \/ dy # 0
    THEN <<Rel("REL_X", dx), Rel("REL_Y", dy), Syn>>
    ELSE <<>>

\* a comparison that gives a tie to the horizontal wheel
HorizontalWins_OnTie(dx, dy) == Abs(dx) >= Abs(dy)

\* line 317: whether the horizontal wheel is the one written
HorizontalWins(dx, dy) == Abs(dx) > Abs(dy)

ScrollWrites(dx, dy) ==
  IF dx # 0 \/ dy # 0
    THEN <<IF HorizontalWins(dx, dy)
             THEN Rel("REL_HWHEEL_HI_RES", -dx)
             ELSE Rel("REL_WHEEL_HI_RES", dy),
           Syn>>
    ELSE <<>>

(* ------------------------------------------------------------------ state *)

VARIABLES
  pc,               \* where main is: START, SEARCHING, ACTIVE, WAIT_HOTPLUG, TERMINATED, ABORTED
  ns,               \* the device files under /dev/input
  sigPending,       \* a blocked SIGINT/SIGTERM is pending on signal_fd
  inoQueue,         \* unread inotify records on ino_fd
  uinputCreated,    \* calls of create_virtual_device that succeeded
  uinputDestroyed,  \* calls of libevdev_uinput_destroy
  gamepad,          \* the ID of the device the session holds, or NoDev
  devGone,          \* the device the session holds was removed
  fdsOpen,          \* source-device descriptors open in the process
  lastScan,         \* what the last find_gamepad opened, closed and returned
  quit,
  revents,          \* poll's answer: [dev |-> poll_fds[0].revents # 0, sig |-> poll_fds[1].revents # 0]
  rc,               \* what the last poll and the read after it returned
  interval,         \* current_time - last_time of the last iteration, in ticks
  ev,               \* the event the last iteration read, or NoEvent
  lx, ly, rx, ry,
  slx, sly, srx, sry,
  hat0x, hat0y,
  lz, rz,
  out,              \* what the last step wrote: [ev |-> .., ptr |-> .., scr |-> ..]
  keysDown          \* the keys whose last written value at the sink is not 0

orch == <<pc, ns, sigPending, inoQueue, uinputCreated, uinputDestroyed,
          gamepad, devGone, fdsOpen, lastScan, quit>>
axes == <<lx, ly, rx, ry, slx, sly, srx, sry>>
locals == <<hat0x, hat0y, lz, rz>>
iter == <<revents, rc, interval, ev, out>>
vars == <<orch, axes, locals, iter, keysDown>>

NoWrites == [ev |-> <<>>, ptr |-> <<>>, scr |-> <<>>]
NoRevents == [dev |-> FALSE, sig |-> FALSE]

\* rc of poll (lines 140, 332) and of the read that followed it, if any:
\* libevdev_next_event in a session (line 156), read of ino_fd in the hotplug
\* wait (line 346)
Result(p, r) == [poll |-> p, read |-> r]
NoResult == Result("none", "none")

\* the failures of libevdev_next_event other than ENODEV
ReadFailures == {"EAGAIN", "EIO"}
NoScan == [dev |-> NoDev, opened |-> {}, closed |-> {}]
AllWrites(o) == o.ev \o o.ptr \o o.scr

\* lines 127-129: the session's locals as declared
FreshLocals ==
  /\ lx' = 0 /\ ly' = 0 /\ rx' = 0 /\ ry' = 0
  /\ slx' = 0 /\ sly' = 0 /\ srx' = 0 /\ sry' = 0
  /\ hat0x' = 0 /\ hat0y' = 0
  /\ lz' = FALSE /\ rz' = FALSE

Init ==
  /\ pc = "START"
  /\ ns \in Namespaces
  /\ sigPending = FALSE
  /\ inoQueue = 0
  /\ uinputCreated = 0
  /\ uinputDestroyed = 0
  /\ gamepad = NoDev
  /\ devGone = FALSE
  /\ fdsOpen = 0
  /\ lastScan = NoScan
  /\ quit = FALSE
  /\ revents = NoRevents
  /\ rc = NoResult
  /\ interval = 0
  /\ ev = NoEvent
  /\ lx = 0 /\ ly = 0 /\ rx = 0 /\ ry = 0
  /\ slx = 0 /\ sly = 0 /\ srx = 0 /\ sry = 0
  /\ hat0x = 0 /\ hat0y = 0
  /\ lz = FALSE /\ rz = FALSE
  /\ out = NoWrites
  /\ keysDown = {}

(* ------------------------------------------------------------ environment *)

Running == pc \in {"SEARCHING", "ACTIVE", "WAIT_HOTPLUG"}

\* the kernel gives a new device the lowest free ID
FreeId == CHOOSE i \in DOMAIN ns : ns[i] = Absent /\ \A j \in DOMAIN ns : j < i => ns[j] # Absent

\* A device is plugged in: its file is created, and the IN_CREATE watch of
\* line 113 queues a record.
Plug(kind) ==
  /\ Running
  /\ \E i \in DOMAIN ns : ns[i] = Absent
  /\ inoQueue < MaxNotif
  /\ ns' = [ns EXCEPT ![FreeId] = kind]
  /\ inoQueue' = inoQueue + 1
  /\ UNCHANGED <<pc, sigPending, uinputCreated, uinputDestroyed, gamepad, devGone,
                 fdsOpen, lastScan, quit, axes, locals, iter, keysDown>>

\* A device is unplugged: its file goes, and a session that holds it reads
\* ENODEV from then on.
Unplug(i) ==
  /\ Running
  /\ ns[i] # Absent
  /\ ns' = [ns EXCEPT ![i] = Absent]
  /\ devGone' = (devGone \/ (pc = "ACTIVE" /\ gamepad = i))
  /\ UNCHANGED <<pc, sigPending, inoQueue, uinputCreated, uinputDestroyed, gamepad,
                 fdsOpen, lastScan, quit, axes, locals, iter, keysDown>>

\* SIGINT or SIGTERM is sent: blocked by line 100, it stays pending on signal_fd,
\* which nothing ever reads.
Signal ==
  /\ pc \in {"START", "SEARCHING", "ACTIVE", "WAIT_HOTPLUG"}
  /\ ~sigPending
  /\ sigPending' = TRUE
  /\ UNCHANGED <<pc, ns, inoQueue, uinputCreated, uinputDestroyed, gamepad, devGone,
                 fdsOpen, lastScan, quit, axes, locals, iter, keysDown>>

(* ----------------------------------------------------------- orchestrator *)

\* lines 96-114, every step succeeding
Startup ==
  /\ pc = "START"
  /\ pc' = "SEARCHING"
  /\ uinputCreated' = uinputCreated + 1
  /\ UNCHANGED <<ns, sigPending, inoQueue, uinputDestroyed, gamepad, devGone,
                 fdsOpen, lastScan, quit, axes, locals, iter, keysDown>>

\* lines 102-114: signalfd, create_virtual_device or inotify fails and err() exits
StartupFail ==
  /\ pc = "START"
  /\ pc' = "ABORTED"
  /\ \E made \in {0, 1} : uinputCreated' = uinputCreated + made
  /\ UNCHANGED <<ns, sigPending, inoQueue, uinputDestroyed, gamepad, devGone,
                 fdsOpen, lastScan, quit, axes, locals, iter, keysDown>>

\* lines 116-137: one scan, and the session's locals when it finds a gamepad
Search ==
  /\ pc = "SEARCHING"
  /\ LET scan == find_gamepad(ns)
     IN  /\ lastScan' = scan
         /\ fdsOpen' = fdsOpen + Cardinality(scan.opened) - Cardinality(scan.closed)
         /\ gamepad' = scan.dev
         /\ pc' = IF scan.dev = NoDev THEN "WAIT_HOTPLUG" ELSE "ACTIVE"
  /\ devGone' = FALSE
  /\ FreshLocals
  /\ revents' = NoRevents /\ rc' = NoResult /\ interval' = 0 /\ ev' = NoEvent /\ out' = NoWrites
  /\ UNCHANGED <<ns, sigPending, inoQueue, uinputCreated, uinputDestroyed, quit, keysDown>>

\* an exit that leaves the virtual device behind
Unwind_NoDestroy ==
  /\ pc' = "TERMINATED"
  /\ uinputDestroyed' = uinputDestroyed

\* lines 356-359
Unwind ==
  /\ pc' = "TERMINATED"
  /\ uinputDestroyed' = uinputDestroyed + 1

\* a session end that keeps the descriptor open
ReleaseDevice_NoClose ==
  /\ gamepad' = NoDev
  /\ devGone' = FALSE
  /\ fdsOpen' = fdsOpen

\* lines 325-326: libevdev_free and close
ReleaseDevice ==
  /\ gamepad' = NoDev
  /\ devGone' = FALSE
  /\ fdsOpen' = fdsOpen - 1

\* lines 325-326, and the locals going out of scope
EndSession ==
  /\ ReleaseDevice
  /\ FreshLocals

\* a loop that scans again at once (continue in place of the fall-through)
AfterDisconnect_Rescan == "SEARCHING"

\* lines 327-329: where main goes after a session that ended without quit:
\* it falls through to the wait_hotplug label
AfterDisconnect == "WAIT_HOTPLUG"

(* ----------------------------------------------------- TranslationSession *)

\* line 140: the wait is bounded while a delta of the last iteration is not 0
TimedWait == slx # 0 \/ sly # 0 \/ srx # 0 \/ sry # 0

\* The intervals an iteration can measure, in ticks; 0 stands for every
\* interval below one tick. A bounded wait that an event or a signal ends
\* lasts at most the timeout, one that nothing ends lasts the timeout.
WokenIntervals == IF TimedWait THEN {0, 1, PollTimeout} ELSE {0, 1, PollTimeout, 10000}
TimeoutIntervals == {PollTimeout}

\* lines 177-295: what the event handler writes
EventWrites(e) ==
  CASE e.type = "EV_ABS" /\ e.code = "ABS_HAT0X" -> HatWrites(hat0x, e.value, "KEY_LEFT", "KEY_RIGHT")
    [] e.type = "EV_ABS" /\ e.code = "ABS_HAT0Y" -> HatWrites(hat0y, e.value, "KEY_UP", "KEY_DOWN")
    [] e.type = "EV_ABS" /\ e.code = "ABS_Z"     -> LatchWrites(lz, e.value, "KEY_LEFTCTRL")
    [] e.type = "EV_ABS" /\ e.code = "ABS_RZ"    -> LatchWrites(rz, e.value, "KEY_LEFTSHIFT")
    [] e.type = "EV_KEY"                         -> ButtonWrites(e)
    [] OTHER                                     -> <<>>

Is(e, code) == e.type = "EV_ABS" /\ e.code = code

\* lines 298-322: the deltas of the iteration and what is written for them
Deltas(iv, w) ==
  /\ slx' = Accel(lx', iv, lsub, ldiv1, ldiv2, lmul)
  /\ sly' = Accel(ly', iv, lsub, ldiv1, ldiv2, lmul)
  /\ srx' = Accel(rx', iv, rsub, rdiv1, rdiv2, rmul)
  /\ sry' = Accel(ry', iv, rsub, rdiv1, rdiv2, rmul)
  /\ out' = [ev |-> w, ptr |-> PointerWrites(slx', sly'), scr |-> ScrollWrites(srx', sry')]
  /\ keysDown' = Apply(keysDown, AllWrites(out'))

\* lines 140-152 and 325-328, 356-359: the wait returns with the signal pending
\* a session that looks at the signal after the deltas of the iteration
SessionQuit_AfterDeltas ==
  /\ pc = "ACTIVE"
  /\ sigPending
  /\ \E d \in BOOLEAN : (devGone => d) /\ revents' = [dev |-> d, sig |-> TRUE]
  /\ rc' = Result("ok", "none")
  /\ quit' = TRUE
  /\ ReleaseDevice
  /\ Unwind
  /\ ev' = NoEvent
  /\ UNCHANGED <<ns, sigPending, inoQueue, uinputCreated, lastScan, lx, ly, rx, ry, locals>>
  /\ \E iv \in WokenIntervals : interval' = iv /\ Deltas(iv, <<>>)

SessionQuit ==
  /\ pc = "ACTIVE"
  /\ sigPending
  /\ \E d \in BOOLEAN : (devGone => d) /\ revents' = [dev |-> d, sig |-> TRUE]
  /\ rc' = Result("ok", "none")
  /\ \E iv \in WokenIntervals : interval' = iv
  /\ quit' = TRUE
  /\ ReleaseDevice
  /\ Unwind
  /\ ev' = NoEvent /\ out' = NoWrites
  /\ UNCHANGED <<ns, sigPending, inoQueue, uinputCreated, lastScan, axes, locals, keysDown>>

\* lines 154-162 and 325-329: the read reports ENODEV
SessionDisconnect ==
  /\ pc = "ACTIVE"
  /\ ~sigPending
  /\ devGone
  /\ revents' = [dev |-> TRUE, sig |-> FALSE]
  /\ rc' = Result("ok", "ENODEV")
  /\ \E iv \in WokenIntervals : interval' = iv
  /\ EndSession
  /\ pc' = AfterDisconnect
  /\ ev' = NoEvent /\ out' = NoWrites
  /\ UNCHANGED <<ns, sigPending, inoQueue, uinputCreated, uinputDestroyed, lastScan,
                 quit, keysDown>>

\* a session that takes a read that would block for no event and goes on
SessionReadError_IgnoresWouldBlock ==
  /\ pc = "ACTIVE"
  /\ ~sigPending
  /\ ~devGone
  /\ revents' = [dev |-> TRUE, sig |-> FALSE]
  /\ \E r \in ReadFailures :
       /\ rc' = Result("ok", r)
       /\ pc' = IF r = "EAGAIN" THEN "ACTIVE" ELSE "ABORTED"
  /\ \E iv \in WokenIntervals : interval' = iv
  /\ ev' = NoEvent /\ out' = NoWrites
  /\ UNCHANGED <<ns, sigPending, inoQueue, uinputCreated, uinputDestroyed, gamepad,
                 devGone, fdsOpen, lastScan, quit, axes, locals, keysDown>>

\* lines 158-165: the read fails with anything else and err() exits
SessionReadError ==
  /\ pc = "ACTIVE"
  /\ ~sigPending
  /\ ~devGone
  /\ revents' = [dev |-> TRUE, sig |-> FALSE]
  /\ \E r \in ReadFailures : rc' = Result("ok", r)
  /\ \E iv \in WokenIntervals : interval' = iv
  /\ pc' = "ABORTED"
  /\ ev' = NoEvent /\ out' = NoWrites
  /\ UNCHANGED <<ns, sigPending, inoQueue, uinputCreated, uinputDestroyed, gamepad,
                 devGone, fdsOpen, lastScan, quit, axes, locals, keysDown>>

\* lines 140-322: the wait returns with an event to read
SessionEvent(e, iv) ==
  /\ pc = "ACTIVE"
  /\ ~sigPending
  /\ ~devGone
  /\ iv \in WokenIntervals
  /\ revents' = [dev |-> TRUE, sig |-> FALSE]
  /\ rc' = Result("ok", "SUCCESS")
  /\ interval' = iv
  /\ ev' = e
  /\ lx' = IF Is(e, "ABS_X") THEN e.value ELSE lx
  /\ ly' = IF Is(e, "ABS_Y") THEN e.value ELSE ly
  /\ rx' = IF Is(e, "ABS_RX") THEN e.value ELSE rx
  /\ ry' = IF Is(e, "ABS_RY") THEN e.value ELSE ry
  /\ hat0x' = IF Is(e, "ABS_HAT0X") THEN e.value ELSE hat0x
  /\ hat0y' = IF Is(e, "ABS_HAT0Y") THEN e.value ELSE hat0y
  /\ lz' = IF Is(e, "ABS_Z") THEN LatchNext(lz, e.value) ELSE lz
  /\ rz' = IF Is(e, "ABS_RZ") THEN LatchNext(rz, e.value) ELSE rz
  /\ Deltas(iv, EventWrites(e))
  /\ UNCHANGED orch

\* lines 140-153 and 298-322: the bounded wait times out
SessionTimeout ==
  /\ pc = "ACTIVE"
  /\ ~sigPending
  /\ ~devGone
  /\ TimedWait
  /\ revents' = NoRevents
  /\ rc' = Result("ok", "none")
  /\ ev' = NoEvent
  /\ UNCHANGED <<orch, lx, ly, rx, ry, locals>>
  /\ \E iv \in TimeoutIntervals : interval' = iv /\ Deltas(iv, <<>>)

\* lines 145-146 and 334-335: poll fails and err() exits
PollFail ==
  /\ pc \in {"ACTIVE", "WAIT_HOTPLUG"}
  /\ rc' = Result("failed", "none")
  /\ pc' = "ABORTED"
  /\ UNCHANGED <<ns, sigPending, inoQueue, uinputCreated, uinputDestroyed, gamepad,
                 devGone, fdsOpen, lastScan, quit, axes, locals, revents, interval, ev,
                 out, keysDown>>

(* --------------------------------------------------------- HotplugWatcher *)

\* a single read in place of the loop, with one record taken
Drained_OneRecord(q) == q - 1

\* lines 343-350: the records left on ino_fd when the drain loop sees EAGAIN
Drained(q) == 0

\* lines 332-340, 356-359: the wait returns with the signal pending
HotplugQuit ==
  /\ pc = "WAIT_HOTPLUG"
  /\ sigPending
  /\ revents' = [dev |-> inoQueue > 0, sig |-> TRUE]
  /\ rc' = Result("ok", "none")
  /\ Unwind
  /\ UNCHANGED <<ns, sigPending, inoQueue, uinputCreated, gamepad, devGone, fdsOpen,
                 lastScan, quit, axes, locals, interval, ev, out, keysDown>>

\* a wait that looks at the inotify descriptor before the signal descriptor
HotplugWake_BeforeSignal ==
  /\ pc = "WAIT_HOTPLUG"
  /\ inoQueue > 0
  /\ revents' = [dev |-> TRUE, sig |-> sigPending]
  /\ rc' = Result("ok", "EAGAIN")
  /\ inoQueue' = Drained(inoQueue)
  /\ pc' = "SEARCHING"
  /\ UNCHANGED <<ns, sigPending, uinputCreated, uinputDestroyed, gamepad, devGone,
                 fdsOpen, lastScan, quit, axes, locals, interval, ev, out, keysDown>>

\* lines 332-353: the wait returns with records to read, which are drained
\* until the read reports EAGAIN
HotplugWake ==
  /\ pc = "WAIT_HOTPLUG"
  /\ ~sigPending
  /\ inoQueue > 0
  /\ revents' = [dev |-> TRUE, sig |-> FALSE]
  /\ rc' = Result("ok", "EAGAIN")
  /\ inoQueue' = Drained(inoQueue)
  /\ pc' = "SEARCHING"
  /\ UNCHANGED <<ns, sigPending, uinputCreated, uinputDestroyed, gamepad, devGone,
                 fdsOpen, lastScan, quit, axes, locals, interval, ev, out, keysDown>>

\* lines 346-349: a read of ino_fd fails with anything but EAGAIN and err() exits
HotplugReadError ==
  /\ pc = "WAIT_HOTPLUG"
  /\ ~sigPending
  /\ inoQueue > 0
  /\ revents' = [dev |-> TRUE, sig |-> FALSE]
  /\ rc' = Result("ok", "EIO")
  /\ pc' = "ABORTED"
  /\ UNCHANGED <<ns, sigPending, inoQueue, uinputCreated, uinputDestroyed, gamepad, devGone,
                 fdsOpen, lastScan, quit, axes, locals, interval, ev, out, keysDown>>

(* --------------------------------------------------------- specifications *)

Environment == (\E k \in DeviceKinds : Plug(k)) \/ (\E i \in DOMAIN ns : Unplug(i)) \/ Signal

Orchestrator ==
  \/ Startup \/ StartupFail \/ Search
  \/ SessionQuit \/ SessionDisconnect \/ SessionReadError \/ SessionTimeout
  \/ PollFail \/ HotplugQuit \/ HotplugWake \/ HotplugReadError

\* the events of the whole-program specification: one stick axis of each
\* stick, the triggers and the buttons that share their modifier keys
OrchEvents ==
  {Event("EV_ABS", "ABS_X", 20000), Event("EV_ABS", "ABS_X", 0),
   Event("EV_ABS", "ABS_Z", 1023), Event("EV_ABS", "ABS_Z", 0)}

Next ==
  \/ Environment
  \/ Orchestrator
  \/ \E e \in OrchEvents, iv \in {1, PollTimeout} : SessionEvent(e, iv)

Spec == Init /\ [][Next]_vars

\* poll returns once a descriptor it watches is readable: the steps that a
\* pending signal or a queued inotify record enables are taken. Setup and
\* the scan do not block.
FairSpec ==
  /\ Spec
  /\ WF_vars(HotplugWake \/ HotplugQuit)
  /\ WF_vars(SessionQuit)
  /\ WF_vars(Startup \/ StartupFail)
  /\ WF_vars(Search)

(* ----------------------------------------------------------------- claims *)

\* a step of the program, not of its environment (which changes the
\* namespace or raises the signal)
ProgramStep == ns' = ns /\ sigPending' = sigPending

\* a session ends on ENODEV with no termination requested
DisconnectStep ==
  pc = "ACTIVE" /\ ProgramStep /\ pc' \notin {"ACTIVE", "ABORTED"} /\ ~sigPending

\* C1 as stated: after a disconnect the source device is released and the next
\* orchestrator step is a new scan (SEARCHING), with no wait for a notification.
C1_RescanAtOnce ==
  [][DisconnectStep => pc' = "SEARCHING" /\ fdsOpen' = fdsOpen - 1]_vars

\* C1 amended: after a disconnect the source device is released and the next
\* orchestrator step is the hotplug wait; a scan follows that wait only when a
\* file-creation record is queued.
C1_WaitAfterDisconnect ==
  [][/\ DisconnectStep =>
          pc' = "WAIT_HOTPLUG" /\ fdsOpen' = fdsOpen - 1 /\ gamepad' = NoDev
     /\ (pc = "WAIT_HOTPLUG" /\ pc' = "SEARCHING") => inoQueue > 0]_vars

\* a session has ended by disconnect while a second gamepad is present, and
\* the program is blocked in the hotplug wait with nothing queued
C1_Witness ==
  /\ pc = "WAIT_HOTPLUG" /\ lastScan.dev # NoDev /\ gamepad = NoDev /\ fdsOpen = 0
  /\ inoQueue = 0 /\ ~sigPending
  /\ \E i \in DOMAIN ns : ns[i] = "gamepad"

\* C2: a pending termination request is never lost; the next wait that returns
\* with it pending ends in TERMINATED, from a session and from the hotplug
\* wait, whatever else is readable; TERMINATED is absorbing. (A wait that
\* itself fails exits through err(), which is ABORTED.) Once a request is
\* pending the process does end.
C2_TerminationObserved ==
  /\ [][/\ sigPending => sigPending'
        /\ pc = "TERMINATED" => pc' = "TERMINATED"
        /\ (sigPending /\ pc \in {"ACTIVE", "WAIT_HOTPLUG"} /\ ProgramStep /\ pc' # "ABORTED")
             => pc' = "TERMINATED" /\ revents'.sig
        /\ (sigPending /\ pc = "SEARCHING" /\ ProgramStep)
             => pc' \in {"ACTIVE", "WAIT_HOTPLUG"}]_vars
  /\ sigPending ~> (pc \in {"TERMINATED", "ABORTED"})

\* terminated by a wait that saw the signal together with a device event
C2_Witness == pc = "TERMINATED" /\ sigPending /\ revents.sig /\ revents.dev

\* C3: the virtual device is created once, before the first scan, is not
\* destroyed while the orchestrator runs, and is destroyed once at TERMINATED.
C3_SinkLifecycle ==
  /\ uinputCreated <= 1
  /\ pc \in {"SEARCHING", "ACTIVE", "WAIT_HOTPLUG", "TERMINATED"} => uinputCreated = 1
  /\ uinputCreated = 0 => lastScan = NoScan /\ pc \in {"START", "ABORTED"}
  /\ uinputDestroyed = (IF pc = "TERMINATED" THEN 1 ELSE 0)

\* terminated from the hotplug wait, after a session that wrote to the sink
\* and a later scan that found nothing
C3_Witness ==
  /\ pc = "TERMINATED" /\ uinputCreated = 1 /\ uinputDestroyed = 1
  /\ lastScan.dev = NoDev /\ keysDown # {}

\* the candidates that open and satisfy the capability predicate
Qualifying(n) == {i \in 0 .. ScanLimit - 1 : CanOpen(n, i) /\ CanQuery(n, i) /\ IsGamepad(n, i)}
Lowest(S) == IF S = {} THEN NoDev ELSE CHOOSE i \in S : \A j \in S : i <= j

\* C4 as stated: the scan skips a candidate that fails to open and returns
\* the lowest-numbered candidate of 0..31 that opens and qualifies.
C4_SkipsUnopenable ==
  [][(pc = "SEARCHING" /\ ProgramStep) => lastScan'.dev = Lowest(Qualifying(ns))]_vars

\* the candidates the scan reaches: those before the first that fails to open
Reached(n) == {i \in 0 .. ScanLimit - 1 : \A j \in 0 .. i : CanOpen(n, j)}

\* C5: among candidates that open, the scan returns the first that has the
\* four stick axes and BTN_A; when it returns, every candidate it opened but
\* the returned one is closed, a candidate whose query failed included; a
\* device handed to a session satisfies the capability predicate.
C5_ClosesRejected ==
  [][(pc = "SEARCHING" /\ ProgramStep) =>
       LET found == Lowest(Qualifying(ns) \cap Reached(ns))
           held == IF found = NoDev THEN {} ELSE {found}
       IN  /\ lastScan'.dev = found
           /\ lastScan'.opened \ lastScan'.closed = held
           /\ lastScan'.closed = {i \in Reached(ns) : found = NoDev \/ i < found}
           /\ fdsOpen' = Cardinality(held)
           /\ pc' = "ACTIVE" =>
                gamepad' = found /\ found # NoDev
                /\ {"ABS_X", "ABS_Y", "ABS_RX", "ABS_RY", "BTN_A"} \subseteq Caps(ns[found])]_vars

\* a session holds event1 after the scan closed event0, whose query failed
C5_Witness ==
  /\ pc = "ACTIVE" /\ gamepad = 1 /\ lastScan.dev = 1
  /\ lastScan.opened = {0, 1} /\ lastScan.closed = {0}
  /\ ns[0] = "broken" /\ fdsOpen = 1

\* C6: a scan that finds nothing leads to the hotplug wait; the wait goes back
\* to scanning only with a record queued, and then leaves none queued; with
\* nothing queued and no signal it does not return; no session starts without
\* a gamepad; and a queued record does end the wait.
C6_HotplugWait ==
  /\ [][/\ (pc = "SEARCHING" /\ ProgramStep /\ lastScan'.dev = NoDev) => pc' = "WAIT_HOTPLUG"
        /\ (pc = "WAIT_HOTPLUG" /\ pc' = "SEARCHING") => inoQueue > 0 /\ inoQueue' = 0
        /\ (pc = "WAIT_HOTPLUG" /\ inoQueue = 0 /\ ~sigPending)
             => pc' \in {"WAIT_HOTPLUG", "ABORTED"}
        /\ (pc # "ACTIVE" /\ pc' = "ACTIVE")
             => pc = "SEARCHING" /\ gamepad' \in DOMAIN ns /\ ns[gamepad'] = "gamepad"]_vars
  /\ (pc = "WAIT_HOTPLUG" /\ inoQueue > 0) ~> (pc # "WAIT_HOTPLUG")

\* blocked in the hotplug wait again, after a session, a wake-up and a scan
\* that found nothing although a device file is there
C6_Witness ==
  /\ pc = "WAIT_HOTPLUG" /\ inoQueue = 0 /\ ~sigPending
  /\ lastScan.dev = NoDev /\ lastScan.opened # {} /\ keysDown # {}

(* ------------------------------------------- one session, one component *)

\* One gamepad at event0 and nothing else; the namespace does not change.
InitPad == Init /\ ns = [i \in 0 .. MaxDev - 1 |-> IF i = 0 THEN "gamepad" ELSE Absent]

Lifecycle == Startup \/ Search \/ Signal \/ SessionQuit

\* the session fed trigger events only
NextLatch ==
  \/ Lifecycle
  \/ \E e \in TriggerEvents(TriggerValues), iv \in {1, PollTimeout} : SessionEvent(e, iv)
SpecLatch == InitPad /\ [][NextLatch]_vars

\* the session fed directional-pad events only
NextHat ==
  \/ Lifecycle
  \/ \E e \in HatEvents, iv \in {1, PollTimeout} : SessionEvent(e, iv)
SpecHat == InitPad /\ [][NextHat]_vars

\* the session fed button events only, of every mapped button and an unmapped one
NextButtons ==
  \/ Lifecycle
  \/ \E e \in ButtonEvents(ButtonCodes \cup {"BTN_MODE"}), iv \in {1} : SessionEvent(e, iv)
SpecButtons == InitPad /\ [][NextButtons]_vars

\* the session fed events of the scroll stick only
NextScroll ==
  \/ Lifecycle
  \/ SessionTimeout
  \/ \E e \in {x \in StickEvents(RawValues) : x.code \in {"ABS_RX", "ABS_RY"}},
        iv \in {0, 1, PollTimeout, 10000} : SessionEvent(e, iv)
SpecScroll == InitPad /\ [][NextScroll]_vars

\* a step that ran the event handler on the event e
Handled(e) == pc = "ACTIVE" /\ pc' = "ACTIVE" /\ ProgramStep /\ ev' = e

KeysOf(w) == SelectSeq(w, LAMBDA x : x[1] = "EV_KEY")

\* C7: both latches start released with the session; a latch becomes pressed
\* only on a value above 512 and released only on a value below 256, and a
\* value from 256 to 512 leaves it as it is; a change writes one key event of
\* the modifier (1 on press, 0 on release) and one marker, anything else
\* writes nothing.
C7_Hysteresis ==
  [][/\ (pc # "ACTIVE" /\ pc' = "ACTIVE") => ~lz' /\ ~rz'
     /\ \A v \in TriggerValues :
          /\ Handled(Event("EV_ABS", "ABS_Z", v)) =>
               /\ lz' = (IF v > 512 THEN TRUE ELSE IF v < 256 THEN FALSE ELSE lz)
               /\ rz' = rz
               /\ out'.ev = (IF lz' = lz THEN <<>>
                             ELSE <<Key("KEY_LEFTCTRL", IF lz' THEN 1 ELSE 0), Syn>>)
          /\ Handled(Event("EV_ABS", "ABS_RZ", v)) =>
               /\ rz' = (IF v > 512 THEN TRUE ELSE IF v < 256 THEN FALSE ELSE rz)
               /\ lz' = lz
               /\ out'.ev = (IF rz' = rz THEN <<>>
                             ELSE <<Key("KEY_LEFTSHIFT", IF rz' THEN 1 ELSE 0), Syn>>)]_vars

\* the left latch is pressed and a value between the thresholds wrote nothing
C7_Witness ==
  /\ pc = "ACTIVE" /\ lz /\ ev = Event("EV_ABS", "ABS_Z", 300) /\ out.ev = <<>>
  /\ "KEY_LEFTCTRL" \in keysDown

\* the key events C8 expects of one hat event
HatExpected(prev, v, negKey, posKey) ==
  (IF prev # 0 /\ prev # v THEN <<Key(IF prev = -1 THEN negKey ELSE posKey, 0)>> ELSE <<>>)
  \o (IF v # 0 THEN <<Key(IF v = -1 THEN negKey ELSE posKey, 1)>> ELSE <<>>)

\* C8: a hat event writes a key-up of the previous direction's key when the
\* previous value was not centred and differs from the new one, then a
\* key-down of the new direction's key when the new value is not centred; the
\* two keys of an axis are never both down.
C8_EdgeOrder ==
  /\ [](~({"KEY_LEFT", "KEY_RIGHT"} \subseteq keysDown) /\ ~({"KEY_UP", "KEY_DOWN"} \subseteq keysDown))
  /\ [][/\ (pc # "ACTIVE" /\ pc' = "ACTIVE") => hat0x' = 0 /\ hat0y' = 0
        /\ \A v \in HatValues :
             /\ Handled(Event("EV_ABS", "ABS_HAT0X", v)) =>
                  /\ KeysOf(out'.ev) = HatExpected(hat0x, v, "KEY_LEFT", "KEY_RIGHT")
                  /\ hat0x' = v
             /\ Handled(Event("EV_ABS", "ABS_HAT0Y", v)) =>
                  /\ KeysOf(out'.ev) = HatExpected(hat0y, v, "KEY_UP", "KEY_DOWN")
                  /\ hat0y' = v]_vars

\* the horizontal hat went from -1 to +1 in one event
C8_Witness ==
  /\ pc = "ACTIVE" /\ ev = Event("EV_ABS", "ABS_HAT0X", 1)
  /\ KeysOf(out.ev) = <<Key("KEY_LEFT", 0), Key("KEY_RIGHT", 1)>>
  /\ "KEY_RIGHT" \in keysDown /\ "KEY_LEFT" \notin keysDown

SingleButtons ==
  {<<"BTN_SOUTH", "BTN_LEFT">>, <<"BTN_EAST", "BTN_RIGHT">>, <<"BTN_SELECT", "KEY_LEFTMETA">>,
   <<"BTN_TR", "KEY_TAB">>, <<"BTN_DPAD_UP", "KEY_UP">>, <<"BTN_DPAD_DOWN", "KEY_DOWN">>,
   <<"BTN_DPAD_LEFT", "KEY_LEFT">>, <<"BTN_DPAD_RIGHT", "KEY_RIGHT">>,
   <<"BTN_WEST", "BTN_EXTRA">>, <<"BTN_NORTH", "BTN_SIDE">>,
   <<"BTN_THUMBL", "KEY_LEFTALT">>, <<"BTN_THUMBR", "KEY_ENTER">>}

\* C9: an event of BTN_START writes KEY_LEFTMETA and KEY_A, one of BTN_TL
\* writes KEY_LEFTSHIFT and KEY_TAB, both keys with the value of the event,
\* then one marker and none between; an event of a singly mapped button
\* writes its key with the value of the event, then one marker.
C9_Chords ==
  [][\A v \in ButtonValues :
       /\ Handled(Event("EV_KEY", "BTN_START", v)) =>
            out'.ev = <<Key("KEY_LEFTMETA", v), Key("KEY_A", v), Syn>>
       /\ Handled(Event("EV_KEY", "BTN_TL", v)) =>
            out'.ev = <<Key("KEY_LEFTSHIFT", v), Key("KEY_TAB", v), Syn>>
       /\ \A b \in SingleButtons :
            Handled(Event("EV_KEY", b[1], v)) => out'.ev = <<Key(b[2], v), Syn>>]_vars

\* BTN_TL was released
C9_Witness ==
  /\ pc = "ACTIVE" /\ ev = Event("EV_KEY", "BTN_TL", 0)
  /\ out.ev = <<Key("KEY_LEFTSHIFT", 0), Key("KEY_TAB", 0), Syn>>

\* C10: an iteration with a scroll delta that is not 0 writes one scroll
\* event and one marker: the horizontal wheel when its delta is larger in
\* magnitude than the vertical one, the vertical wheel otherwise, a tie
\* included; with both deltas 0 it writes nothing for the scroll stick.
C10_ScrollExclusive ==
  [][(pc = "ACTIVE" /\ pc' = "ACTIVE" /\ ProgramStep) =>
       out'.scr = (IF srx' = 0 /\ sry' = 0 THEN <<>>
                   ELSE IF Abs(srx') > Abs(sry')
                          THEN <<Rel("REL_HWHEEL_HI_RES", -srx'), Syn>>
                          ELSE <<Rel("REL_WHEEL_HI_RES", sry'), Syn>>)]_vars

\* both deltas are equal in magnitude and not 0, and the vertical wheel was written
C10_Witness ==
  /\ pc = "ACTIVE" /\ srx # 0 /\ Abs(srx) = Abs(sry)
  /\ out.scr = <<Rel("REL_WHEEL_HI_RES", sry), Syn>>

\* C11 as stated: a session never enters its wait with a stick displaced
\* beyond 8192 and the wait unbounded.
C11_BoundedWhileDisplaced ==
  (pc = "ACTIVE" /\ (Abs(lx) > 8192 \/ Abs(ly) > 8192 \/ Abs(rx) > 8192 \/ Abs(ry) > 8192))
    => TimedWait

(* ------------------------------------------------------------ both sticks *)

\* raw values of a stick axis: at rest, just inside the dead zone and well
\* outside it, in both directions
AxisValues == {-20000, -8191, 0, 8191, 20000}

\* the session fed events of all four stick axes
NextAxes ==
  \/ Lifecycle
  \/ SessionTimeout
  \/ \E e \in StickEvents(AxisValues), iv \in {0, 1, PollTimeout, 10000} : SessionEvent(e, iv)
SpecAxes == InitPad /\ [][NextAxes]_vars

C13_SignSymmetry ==
  pc = "ACTIVE" =>
    /\ lx = -ly => slx = -sly
    /\ rx = -ry => srx = -sry
    /\ slx = -Accel(-lx, interval, lsub, ldiv1, ldiv2, lmul)
    /\ sly = -Accel(-ly, interval, lsub, ldiv1, ldiv2, lmul)
    /\ srx = -Accel(-rx, interval, rsub, rdiv1, rdiv2, rmul)
    /\ sry = -Accel(-ry, interval, rsub, rdiv1, rdiv2, rmul)
    /\ lx = 0 => slx = 0
    /\ ly = 0 => sly = 0
    /\ rx = 0 => srx = 0
    /\ ry = 0 => sry = 0

\* opposite raw values on the axes of each stick, with opposite deltas
C13_Witness ==
  /\ pc = "ACTIVE" /\ interval = PollTimeout
  /\ lx = 20000 /\ ly = -20000 /\ slx = 7 /\ sly = -7
  /\ rx = -8191 /\ ry = 8191 /\ srx = -4 /\ sry = 4

\* C15 as stated: the time a session spent in an unbounded wait with both
\* sticks at rest is not charged to the raw value read after it: the delta of
\* that iteration is no larger than the one a single timeout would give.
C15_IdleNotCharged ==
  [][(/\ pc = "ACTIVE" /\ pc' = "ACTIVE" /\ ProgramStep
      /\ lx = 0 /\ ly = 0 /\ rx = 0 /\ ry = 0 /\ ~TimedWait)
     => /\ Abs(slx') <= Abs(Accel(lx', PollTimeout, lsub, ldiv1, ldiv2, lmul))
        /\ Abs(sly') <= Abs(Accel(ly', PollTimeout, lsub, ldiv1, ldiv2, lmul))
        /\ Abs(srx') <= Abs(Accel(rx', PollTimeout, rsub, rdiv1, rdiv2, rmul))
        /\ Abs(sry') <= Abs(Accel(ry', PollTimeout, rsub, rdiv1, rdiv2, rmul))]_vars

\* a hat event that flips the axis from one direction to the opposite one
Flip(prev, v) == prev # 0 /\ v = -prev

\* C14 as stated: a direct flip of a hat axis writes the key-up of the old
\* direction and the key-down of the new one in one batch, with no marker
\* between them and one marker after both.
C14_OneBatch ==
  [][\A v \in HatValues :
       /\ (Handled(Event("EV_ABS", "ABS_HAT0X", v)) /\ Flip(hat0x, v)) =>
            out'.ev = <<Key(HatKey(hat0x, "KEY_LEFT", "KEY_RIGHT"), 0),
                        Key(HatKey(v, "KEY_LEFT", "KEY_RIGHT"), 1), Syn>>
       /\ (Handled(Event("EV_ABS", "ABS_HAT0Y", v)) /\ Flip(hat0y, v)) =>
            out'.ev = <<Key(HatKey(hat0y, "KEY_UP", "KEY_DOWN"), 0),
                        Key(HatKey(v, "KEY_UP", "KEY_DOWN"), 1), Syn>>]_vars

\* C14, amended: a direct flip of a hat axis writes, in one iteration and in
\* this order, the key-up of the old direction, a marker, the key-down of the
\* new direction and a second marker: two batches of one key event each.
C14_TwoBatches ==
  [][\A v \in HatValues :
       /\ (Handled(Event("EV_ABS", "ABS_HAT0X", v)) /\ Flip(hat0x, v)) =>
            out'.ev = <<Key(HatKey(hat0x, "KEY_LEFT", "KEY_RIGHT"), 0), Syn,
                        Key(HatKey(v, "KEY_LEFT", "KEY_RIGHT"), 1), Syn>>
       /\ (Handled(Event("EV_ABS", "ABS_HAT0Y", v)) /\ Flip(hat0y, v)) =>
            out'.ev = <<Key(HatKey(hat0y, "KEY_UP", "KEY_DOWN"), 0), Syn,
                        Key(HatKey(v, "KEY_UP", "KEY_DOWN"), 1), Syn>>]_vars

\* the vertical hat went from +1 to -1 in one event
C14_Witness ==
  /\ pc = "ACTIVE" /\ ev = Event("EV_ABS", "ABS_HAT0Y", -1)
  /\ out.ev = <<Key("KEY_DOWN", 0), Syn, Key("KEY_UP", 1), Syn>>

\* C16: an iteration of a session in which the signal descriptor is ready
\* ends the session and the program (TERMINATED) without reading the device
\* and without writing to the sink, also when the device is ready too and a
\* stick is displaced; nothing is written after it.
C16_QuitWritesNothing ==
  [][/\ (pc = "ACTIVE" /\ ProgramStep /\ sigPending /\ rc'.poll = "ok") =>
          /\ pc' = "TERMINATED" /\ quit'
          /\ rc'.read = "none" /\ ev' = NoEvent
          /\ out' = NoWrites /\ keysDown' = keysDown
     /\ pc = "TERMINATED" => (pc' = "TERMINATED" /\ out' = out /\ keysDown' = keysDown)]_vars

\* the session ended on the signal with the device ready and the stick held
C16_Witness ==
  /\ pc = "TERMINATED" /\ quit
  /\ revents = [dev |-> TRUE, sig |-> TRUE]
  /\ lx = 20000 /\ slx # 0
  /\ out = NoWrites

\* C17: a device read that reports ENODEV ends the session in the hotplug
\* wait with the sink intact; every other failure of the device read,
\* would-block included, every failure of poll in a session or in the hotplug
\* wait, and a failed read of the inotify descriptor abort the process; none
\* of them leads to a scan or to the hotplug wait.
C17_FailureTaxonomy ==
  [][(ProgramStep /\ pc \in {"ACTIVE", "WAIT_HOTPLUG"}) =>
       /\ (pc = "ACTIVE" /\ rc'.read = "ENODEV") =>
            /\ pc' = "WAIT_HOTPLUG"
            /\ uinputCreated' = 1 /\ uinputDestroyed' = 0
            /\ gamepad' = NoDev
       /\ (pc = "ACTIVE" /\ rc'.read \in ReadFailures) => pc' = "ABORTED"
       /\ (pc = "WAIT_HOTPLUG" /\ rc'.read = "EIO") => pc' = "ABORTED"
       /\ rc'.poll = "failed" => pc' = "ABORTED"
       /\ pc' = "ABORTED" =>
            (rc'.poll = "failed" \/ rc'.read \in ReadFailures)]_vars

\* a session aborted on a read that would block, the sink not destroyed
C17_Witness ==
  /\ pc = "ABORTED" /\ rc = Result("ok", "EAGAIN")
  /\ gamepad # NoDev /\ uinputDestroyed = 0

\* C18: the process holds at most one source-device descriptor; it holds one
\* throughout an ACTIVE session and none at start, during a scan's start, in
\* the hotplug wait and at TERMINATED.
C18_OneHandle ==
  /\ fdsOpen \in {0, 1}
  /\ pc = "ACTIVE" => (fdsOpen = 1 /\ gamepad # NoDev)
  /\ pc \in {"START", "SEARCHING", "WAIT_HOTPLUG", "TERMINATED"} =>
       (fdsOpen = 0 /\ gamepad = NoDev)

\* a session was held and then ended by the signal, and nothing is open
C18_Witness ==
  pc = "TERMINATED" /\ quit /\ lastScan.dev # NoDev /\ fdsOpen = 0

\* C19 as stated: whenever a session waits, the left latch is pressed exactly
\* when the last KEY_LEFTCTRL event written to the sink was a key-down.
C19_LatchMatchesSink ==
  pc = "ACTIVE" => (lz <=> "KEY_LEFTCTRL" \in keysDown)

(* -------------------------------------------------------- shared modifier *)

\* the session fed events of the right trigger and of the left shoulder button
NextShift ==
  \/ Lifecycle
  \/ \E e \in {x \in TriggerEvents(TriggerValues) : x.code = "ABS_RZ"}
               \cup ButtonEvents({"BTN_TL", "BTN_TR"}),
        iv \in {1, PollTimeout} : SessionEvent(e, iv)
SpecShift == InitPad /\ [][NextShift]_vars

\* C20 as stated: within a session KEY_LEFTSHIFT is down at the sink whenever
\* the right latch is pressed, and a release of BTN_TL writes no key-up of
\* KEY_LEFTSHIFT while the latch is pressed.
C20_ShiftHeldWhileLatched ==
  (pc = "ACTIVE" /\ rz) =>
    /\ "KEY_LEFTSHIFT" \in keysDown
    /\ ev = Event("EV_KEY", "BTN_TL", 0) =>
         Key("KEY_LEFTSHIFT", 0) \notin {out.ev[i] : i \in DOMAIN out.ev}

====
